---- MODULE Spec2Model ----
(***************************************************************************)
(* Model of clam_juice.py, the ClamAV signature database filter: the       *)
(* classifier should_keep_signature, the five per-format line filters,     *)
(* whole-format exclusion, the filter_database workflow and the argument   *)
(* resolution of main.                                                     *)
(*                                                                         *)
(* Text is modelled as a sequence of one-character strings, so that        *)
(* lower(), upper(), strip(), split(), startswith() and the substring test *)
(* are computed character by character as Python computes them.  A file is *)
(* the sequence of its lines, each without its line terminator.            *)
(***************************************************************************)
EXTENDS Integers, Sequences, FiniteSets, TLC

\* ------------------------------------------------------------------------
\* Python values

\* None, and a value that is not None
None == <<>>
Some(v) == <<v>>
IsNone(o) == o = <<>>
ValueOf(o) == o[1]

\* ------------------------------------------------------------------------
\* str methods

UPPERCASE == <<"A", "B", "C", "D", "E", "F", "G", "H", "I", "J", "K", "L", "M", "N", "O", "P", "Q", "R", "S", "T", "U", "V", "W", "X", "Y", "Z">>
LOWERCASE == <<"a", "b", "c", "d", "e", "f", "g", "h", "i", "j", "k", "l", "m", "n", "o", "p", "q", "r", "s", "t", "u", "v", "w", "x", "y", "z">>
WHITESPACE == {" ", "\t", "\r", "\n"}

lower_char(c) ==
  IF \E i \in 1..Len(UPPERCASE) : UPPERCASE[i] = c
  THEN LOWERCASE[CHOOSE i \in 1..Len(UPPERCASE) : UPPERCASE[i] = c]
  ELSE c

upper_char(c) ==
  IF \E i \in 1..Len(LOWERCASE) : LOWERCASE[i] = c
  THEN UPPERCASE[CHOOSE i \in 1..Len(LOWERCASE) : LOWERCASE[i] = c]
  ELSE c

lower(s) == [i \in 1..Len(s) |-> lower_char(s[i])]

upper(s) == [i \in 1..Len(s) |-> upper_char(s[i])]

startswith(s, p) == Len(s) >= Len(p) /\ SubSeq(s, 1, Len(p)) = p

endswith(s, p) == Len(s) >= Len(p) /\ SubSeq(s, Len(s) - Len(p) + 1, Len(s)) = p

\* sub in s
substring_in(sub, s) ==
  \E i \in 1..(Len(s) - Len(sub) + 1) : SubSeq(s, i, i + Len(sub) - 1) = sub

RECURSIVE lstrip(_)
lstrip(s) == IF s # <<>> /\ s[1] \in WHITESPACE THEN lstrip(Tail(s)) ELSE s

RECURSIVE rstrip(_)
rstrip(s) ==
  IF s # <<>> /\ s[Len(s)] \in WHITESPACE THEN rstrip(SubSeq(s, 1, Len(s) - 1)) ELSE s

strip(s) == rstrip(lstrip(s))

\* s.split(sep, maxsplit); maxsplit = -1 is no limit
RECURSIVE split(_, _, _)
split(s, sep, maxsplit) ==
  IF maxsplit = 0 \/ ~substring_in(sep, s)
  THEN <<s>>
  ELSE LET i == CHOOSE j \in 1..(Len(s) - Len(sep) + 1) :
                  /\ SubSeq(s, j, j + Len(sep) - 1) = sep
                  /\ \A k \in 1..(j - 1) : SubSeq(s, k, k + Len(sep) - 1) # sep
       IN <<SubSeq(s, 1, i - 1)>> \o split(SubSeq(s, i + Len(sep), Len(s)), sep, maxsplit - 1)

\* "".join of a list of strings
RECURSIVE Flatten(_)
Flatten(ss) == IF ss = <<>> THEN <<>> ELSE Head(ss) \o Flatten(Tail(ss))

\* sum of a list of numbers
RECURSIVE Sum(_)
Sum(ns) == IF ns = <<>> THEN 0 ELSE Head(ns) + Sum(Tail(ns))

\* set(list)
Range(s) == {s[i] : i \in 1..Len(s)}

\* ------------------------------------------------------------------------
\* Literals of the program

\* 'eicar'
EICAR == <<"e", "i", "c", "a", "r">>
\* 'test.eicar'
TEST_EICAR == <<"t", "e", "s", "t", ".", "e", "i", "c", "a", "r">>
\* 'Win'
WIN == <<"W", "i", "n">>
\* '# MDB signatures filtered (100% Windows PE)'
MDB_FILTERED_COMMENT == <<"#", " ", "M", "D", "B", " ", "s", "i", "g", "n", "a", "t", "u", "r", "e", "s", " ", "f", "i", "l", "t", "e", "r", "e", "d", " ", "(", "1", "0", "0", "%", " ", "W", "i", "n", "d", "o", "w", "s", " ", "P", "E", ")">>
\* '# '
EXCLUDED_PREFIX == <<"#", " ">>
\* ' signatures excluded entirely'
EXCLUDED_SUFFIX == <<" ", "s", "i", "g", "n", "a", "t", "u", "r", "e", "s", " ", "e", "x", "c", "l", "u", "d", "e", "d", " ", "e", "n", "t", "i", "r", "e", "l", "y">>
\* 'ndb'
NDB == <<"n", "d", "b">>
\* 'hdb'
HDB == <<"h", "d", "b">>
\* 'hsb'
HSB == <<"h", "s", "b">>
\* 'mdb'
MDB == <<"m", "d", "b">>
\* 'ldb'
LDB == <<"l", "d", "b">>
DOT == <<".">>
COLON == <<":">>
SEMICOLON == <<";">>
COMMA == <<",">>
HASH == <<"#">>

\* ------------------------------------------------------------------------
\* ComprehensiveFilter.should_keep_signature

\* should_keep_signature matching a platform that the prefix starts with
should_keep_signature_startswith(name, exclude_platforms, include_platforms) ==
  IF name # <<>> /\ (substring_in(EICAR, lower(name)) \/ substring_in(TEST_EICAR, lower(name)))
  THEN TRUE
  ELSE IF name = <<>> \/ ~substring_in(DOT, name)
  THEN Cardinality(include_platforms) = 0
  ELSE LET prefix == split(name, DOT, -1)[1]
       IN IF include_platforms # {}
          THEN \E p \in include_platforms : startswith(prefix, p)
          ELSE IF exclude_platforms # {}
          THEN ~\E p \in exclude_platforms : startswith(prefix, p)
          ELSE TRUE

\* should_keep_signature matching a platform anywhere in the prefix
should_keep_signature_substring(name, exclude_platforms, include_platforms) ==
  IF name # <<>> /\ (substring_in(EICAR, lower(name)) \/ substring_in(TEST_EICAR, lower(name)))
  THEN TRUE
  ELSE IF name = <<>> \/ ~substring_in(DOT, name)
  THEN Cardinality(include_platforms) = 0
  ELSE LET prefix == split(name, DOT, -1)[1]
       IN IF include_platforms # {}
          THEN \E p \in include_platforms : substring_in(p, prefix)
          ELSE IF exclude_platforms # {}
          THEN ~\E p \in exclude_platforms : substring_in(p, prefix)
          ELSE TRUE

should_keep_signature(name, exclude_platforms, include_platforms) ==
  IF name # <<>> /\ (substring_in(EICAR, lower(name)) \/ substring_in(TEST_EICAR, lower(name)))
  THEN TRUE
  ELSE IF name = <<>> \/ ~substring_in(DOT, name)
  THEN Cardinality(include_platforms) = 0
  ELSE LET prefix == split(name, DOT, -1)[1]
       IN IF include_platforms # {}
          THEN prefix \in include_platforms
          ELSE IF exclude_platforms # {}
          THEN prefix \notin exclude_platforms
          ELSE TRUE

\* ------------------------------------------------------------------------
\* The per-format filters.  Each *_line is the body of the filter's loop for
\* one line read from the file: the lines it appends to filtered_lines and
\* what it adds to original_count and filtered_count.

Passed(line) == [out |-> <<line>>, original |-> 0, filtered |-> 0]
Kept(line) == [out |-> <<line>>, original |-> 1, filtered |-> 1]
Dropped == [out |-> <<>>, original |-> 1, filtered |-> 0]

\* the result of a loop over the lines of a file
Collect(r) ==
  [lines |-> Flatten([i \in 1..Len(r) |-> r[i].out]),
   original_count |-> Sum([i \in 1..Len(r) |-> r[i].original]),
   filtered_count |-> Sum([i \in 1..Len(r) |-> r[i].filtered])]

ndb_line(raw, exclude_platforms, include_platforms, ndb_types) ==
  LET line == strip(raw)
      parts == split(line, COLON, 3)
  IN IF line = <<>> \/ startswith(line, HASH)
     THEN Passed(line)
     ELSE IF Len(parts) >= 4
     THEN LET name == parts[1]
              sig_type == parts[2]
              keep_platform == should_keep_signature(name, exclude_platforms, include_platforms)
              keep_type == IsNone(ndb_types) \/ sig_type \in ValueOf(ndb_types)
          IN IF keep_platform /\ keep_type THEN Kept(line) ELSE Dropped
     ELSE Kept(line)

ndb_pass(content, exclude_platforms, include_platforms, ndb_types) ==
  Collect([i \in 1..Len(content) |->
             ndb_line(content[i], exclude_platforms, include_platforms, ndb_types)])

\* hdb_line that counts a line with too few fields as kept but not as read
hdb_line_uncounted(raw, exclude_platforms, include_platforms) ==
  LET line == strip(raw)
      parts == split(line, COLON, -1)
  IN IF line = <<>> \/ startswith(line, HASH)
     THEN Passed(line)
     ELSE IF Len(parts) >= 3
     THEN IF should_keep_signature(parts[3], exclude_platforms, include_platforms)
          THEN Kept(line)
          ELSE Dropped
     ELSE [out |-> <<line>>, original |-> 0, filtered |-> 1]

hdb_line(raw, exclude_platforms, include_platforms) ==
  LET line == strip(raw)
      parts == split(line, COLON, -1)
  IN IF line = <<>> \/ startswith(line, HASH)
     THEN Passed(line)
     ELSE IF Len(parts) >= 3
     THEN IF should_keep_signature(parts[3], exclude_platforms, include_platforms)
          THEN Kept(line)
          ELSE Dropped
     ELSE Kept(line)

hdb_pass(content, exclude_platforms, include_platforms) ==
  Collect([i \in 1..Len(content) |-> hdb_line(content[i], exclude_platforms, include_platforms)])

hsb_line(raw, exclude_platforms, include_platforms) ==
  LET line == strip(raw)
      parts == split(line, COLON, -1)
  IN IF line = <<>> \/ startswith(line, HASH)
     THEN Passed(line)
     ELSE IF Len(parts) >= 3
     THEN IF should_keep_signature(parts[3], exclude_platforms, include_platforms)
          THEN Kept(line)
          ELSE Dropped
     ELSE Kept(line)

hsb_pass(content, exclude_platforms, include_platforms) ==
  Collect([i \in 1..Len(content) |-> hsb_line(content[i], exclude_platforms, include_platforms)])

ldb_line(raw, exclude_platforms, include_platforms) ==
  LET line == strip(raw)
      parts == split(line, SEMICOLON, 1)
  IN IF line = <<>> \/ startswith(line, HASH)
     THEN Passed(line)
     ELSE IF Len(parts) >= 1
     THEN IF should_keep_signature(parts[1], exclude_platforms, include_platforms)
          THEN Kept(line)
          ELSE Dropped
     ELSE Kept(line)

ldb_pass(content, exclude_platforms, include_platforms) ==
  Collect([i \in 1..Len(content) |-> ldb_line(content[i], exclude_platforms, include_platforms)])

\* sum(1 for line in f if line.strip() and not line.startswith("#")):
\* the test is on the line as read, not on the stripped line
count_signatures(content) ==
  Sum([i \in 1..Len(content) |->
         IF strip(content[i]) # <<>> /\ ~startswith(content[i], HASH) THEN 1 ELSE 0])

\* mdb_pass whose shortcut keeps the comment lines of the file and adds its own
mdb_pass_appending(content, exclude_platforms, include_platforms) ==
  IF WIN \in exclude_platforms
  THEN [lines |-> SelectSeq(content, LAMBDA l : startswith(l, HASH)) \o <<MDB_FILTERED_COMMENT>>,
        original_count |-> count_signatures(content),
        filtered_count |-> 0,
        key |-> MDB]
  ELSE LET r == hdb_pass(content, exclude_platforms, include_platforms)
       IN [lines |-> r.lines, original_count |-> r.original_count,
           filtered_count |-> r.filtered_count, key |-> HDB]

\* filter_mdb: the stats key it adds to is part of the result, because the
\* whole-file shortcut adds to "mdb" and the normal path is filter_hdb
mdb_pass(content, exclude_platforms, include_platforms) ==
  IF WIN \in exclude_platforms
  THEN [lines |-> <<MDB_FILTERED_COMMENT>>,
        original_count |-> count_signatures(content),
        filtered_count |-> 0,
        key |-> MDB]
  ELSE LET r == hdb_pass(content, exclude_platforms, include_platforms)
       IN [lines |-> r.lines, original_count |-> r.original_count,
           filtered_count |-> r.filtered_count, key |-> HDB]

\* exclude_file_type
file_ext(basename) == LET p == split(basename, DOT, -1) IN p[Len(p)]

exclude_pass(basename, content) ==
  LET ext == file_ext(basename)
  IN [lines |-> <<EXCLUDED_PREFIX \o upper(ext) \o EXCLUDED_SUFFIX>>,
      original_count |-> count_signatures(content),
      filtered_count |-> 0,
      key |-> ext]

\* ------------------------------------------------------------------------
\* Inputs: the files of an unpacked database, the lines they may hold and the
\* policies a caller may pass

\* 'Andr'
ANDR == <<"A", "n", "d", "r">>
\* 'Unix'
UNIX == <<"U", "n", "i", "x">>
\* 'main.ndb'
MAIN_NDB == <<"m", "a", "i", "n", ".", "n", "d", "b">>
\* 'main.hdb'
MAIN_HDB == <<"m", "a", "i", "n", ".", "h", "d", "b">>
\* 'main.hsb'
MAIN_HSB == <<"m", "a", "i", "n", ".", "h", "s", "b">>
\* 'main.mdb'
MAIN_MDB == <<"m", "a", "i", "n", ".", "m", "d", "b">>
\* 'main.ldb'
MAIN_LDB == <<"m", "a", "i", "n", ".", "l", "d", "b">>
\* 'main.info'
MAIN_INFO == <<"m", "a", "i", "n", ".", "i", "n", "f", "o">>
\* 'info'
INFO == <<"i", "n", "f", "o">>
\* ''
L_BLANK == <<>>
\* '#c'
L_COMMENT == <<"#", "c">>
\* '# d '
L_COMMENT_WS == <<"#", " ", "d", " ">>
\* 'EvilWin.Trojan.Foo:0:*:deadbeef'
N_EVILWIN == <<"E", "v", "i", "l", "W", "i", "n", ".", "T", "r", "o", "j", "a", "n", ".", "F", "o", "o", ":", "0", ":", "*", ":", "d", "e", "a", "d", "b", "e", "e", "f">>
\* 'Win.T:1:*:ab'
N_WIN == <<"W", "i", "n", ".", "T", ":", "1", ":", "*", ":", "a", "b">>
\* 'Win.Eicar:1:*:ab'
N_EICAR == <<"W", "i", "n", ".", "E", "i", "c", "a", "r", ":", "1", ":", "*", ":", "a", "b">>
\* 'Win.T:0:ab'
N_SHORT == <<"W", "i", "n", ".", "T", ":", "0", ":", "a", "b">>
\* 'ab:1:Win.T'
H_WIN == <<"a", "b", ":", "1", ":", "W", "i", "n", ".", "T">>
\* 'ab:1:Unix.B'
H_UNIX == <<"a", "b", ":", "1", ":", "U", "n", "i", "x", ".", "B">>
\* 'ab:1:Win.Eicar'
H_EICAR == <<"a", "b", ":", "1", ":", "W", "i", "n", ".", "E", "i", "c", "a", "r">>
\* 'ab:Win.T'
H_SHORT == <<"a", "b", ":", "W", "i", "n", ".", "T">>
\* 'Android.T;E:1'
D_ANDROID == <<"A", "n", "d", "r", "o", "i", "d", ".", "T", ";", "E", ":", "1">>
\* 'Andr.T;E:1'
D_ANDR == <<"A", "n", "d", "r", ".", "T", ";", "E", ":", "1">>
\* 'Win.Eicar;E:1'
D_EICAR == <<"W", "i", "n", ".", "E", "i", "c", "a", "r", ";", "E", ":", "1">>
\* 'Win.T'
D_NOSEP == <<"W", "i", "n", ".", "T">>
\* 'main:1'
I_TEXT == <<"m", "a", "i", "n", ":", "1">>

\* a file holds at most MaxLines lines, and at most MaxCalls filter calls are
\* made on it
MaxLines == 2
MaxCalls == 2

FileNames == {MAIN_NDB, MAIN_HDB, MAIN_HSB, MAIN_MDB, MAIN_LDB, MAIN_INFO}
StatKeys == {file_ext(f) : f \in FileNames}

GenericLines == {L_BLANK, L_COMMENT, L_COMMENT_WS}
NdbLines == {N_EVILWIN, N_WIN, N_EICAR, N_SHORT}
HdbLines == {H_WIN, H_UNIX, H_EICAR, H_SHORT}
LdbLines == {D_ANDROID, D_ANDR, D_EICAR, D_NOSEP}

LinesOf(f) ==
  GenericLines \cup
    (IF file_ext(f) = NDB THEN NdbLines
     ELSE IF file_ext(f) \in {HDB, HSB, MDB} THEN HdbLines
     ELSE IF file_ext(f) = LDB THEN LdbLines
     ELSE {I_TEXT})

ContentsOf(f) == UNION {[1..n -> LinesOf(f)] : n \in 0..MaxLines}

ExcludeSets == {{}, {WIN}, {ANDR}, {WIN, ANDR}}
IncludeSets == {{}, {UNIX}}
NdbTypeSets == {None, Some({}), Some({<<"0">>})}

\* names and platform sets the classifier is called with
KeepPrefixes == {<<>>, WIN, <<"w", "i", "n">>, ANDR, ANDR \o <<"o", "i", "d">>, <<"E", "v", "i", "l">> \o WIN, UNIX}
KeepRests == {<<>>, DOT, <<".", "T", ".", "F">>, <<"T">>, <<".", "E", "i", "c", "a", "r">>}
KeepNames == {p \o r : p \in KeepPrefixes, r \in KeepRests}
KeepPlatformSets == SUBSET {WIN, ANDR, UNIX}

\* ------------------------------------------------------------------------
\* State

VARIABLES
  files,              \* the directory being filtered: file name -> lines
  stats,              \* ComprehensiveFilter.stats: format -> original, filtered
  exclude_platforms,  \* the policy the filters are called with
  include_platforms,
  ndb_types,
  exclude_file_types,
  before,             \* files as they were before the last call
  stats_before,       \* stats as they were before the last call
  last_call,          \* the last method called and its file, or None
  calls,              \* number of filter calls made
  name_arg,           \* the name should_keep_signature is called with
  keep_result,        \* its result, or None before the call
  args,               \* the parsed command line of main
  locals,             \* main's exclude_platforms, include_platforms, ndb_types, exclude_types
  pc,                 \* where main / filter_database is
  exit_code,          \* the process exit status, or None while running
  effects             \* the I/O done so far outside the scratch directory

vars == <<files, stats, exclude_platforms, include_platforms, ndb_types, exclude_file_types,
          before, stats_before, last_call, calls, name_arg, keep_result,
          args, locals, pc, exit_code, effects>>

filter_vars == <<files, stats, before, stats_before, last_call, calls>>
policy_vars == <<exclude_platforms, include_platforms, ndb_types, exclude_file_types>>
keep_vars == <<name_arg, keep_result>>
main_vars == <<args, locals, pc, exit_code, effects>>

\* self.stats = defaultdict(lambda: {"original": 0, "filtered": 0})
NewStats == [k \in StatKeys |-> [original |-> 0, filtered |-> 0]]

AddStats(st, key, r) ==
  [st EXCEPT ![key] = [original |-> @.original + r.original_count,
                       filtered |-> @.filtered + r.filtered_count]]

\* the file after a pass has rewritten it, and the stats after the pass
Rewritten(fs, st, file_path, key, r) ==
  [files |-> [fs EXCEPT ![file_path] = r.lines], stats |-> AddStats(st, key, r)]

Untouched(fs, st) == [files |-> fs, stats |-> st]

\* the five filter methods and exclude_file_type, on the directory fs with
\* the stats st; each returns at once when the path does not exist
filter_ndb(fs, st, file_path, excl, incl, types) ==
  IF file_path \notin DOMAIN fs THEN Untouched(fs, st)
  ELSE Rewritten(fs, st, file_path, NDB, ndb_pass(fs[file_path], excl, incl, types))

filter_hdb(fs, st, file_path, excl, incl) ==
  IF file_path \notin DOMAIN fs THEN Untouched(fs, st)
  ELSE Rewritten(fs, st, file_path, HDB, hdb_pass(fs[file_path], excl, incl))

filter_hsb(fs, st, file_path, excl, incl) ==
  IF file_path \notin DOMAIN fs THEN Untouched(fs, st)
  ELSE Rewritten(fs, st, file_path, HSB, hsb_pass(fs[file_path], excl, incl))

filter_mdb(fs, st, file_path, excl, incl) ==
  IF file_path \notin DOMAIN fs THEN Untouched(fs, st)
  ELSE LET r == mdb_pass(fs[file_path], excl, incl)
       IN Rewritten(fs, st, file_path, r.key, r)

filter_ldb(fs, st, file_path, excl, incl) ==
  IF file_path \notin DOMAIN fs THEN Untouched(fs, st)
  ELSE Rewritten(fs, st, file_path, LDB, ldb_pass(fs[file_path], excl, incl))

exclude_file_type(fs, st, file_path) ==
  IF file_path \notin DOMAIN fs THEN Untouched(fs, st)
  ELSE LET r == exclude_pass(file_path, fs[file_path])
       IN Rewritten(fs, st, file_path, r.key, r)

\* Path(temp_dir).glob("*." + ext)
glob(fs, ext) == {f \in DOMAIN fs : endswith(f, DOT \o ext)}

\* ------------------------------------------------------------------------
\* Idle values of the variables a specification does not use

NoArgs == [list_profiles |-> FALSE, input |-> None, output |-> None, profile |-> None,
           exclude_platforms |-> None, include_platforms |-> None,
           ndb_types |-> None, exclude_types |-> None]
NoLocals == [exclude_platforms |-> None, include_platforms |-> None,
             ndb_types |-> None, exclude_types |-> None]
NoEffects == [output_dir_created |-> FALSE, unpacker_invoked |-> FALSE, copied |-> <<>>]

MainIdle == args = NoArgs /\ locals = NoLocals /\ pc = "idle" /\ exit_code = None /\ effects = NoEffects
KeepIdle == name_arg = <<>> /\ keep_result = None
FilterIdle ==
  /\ files = <<>> /\ stats = NewStats /\ before = <<>> /\ stats_before = NewStats
  /\ last_call = None /\ calls = 0

\* ------------------------------------------------------------------------
\* SpecKeep: should_keep_signature called on a name with two platform sets

InitKeep ==
  /\ name_arg \in KeepNames
  /\ exclude_platforms \in KeepPlatformSets
  /\ include_platforms \in KeepPlatformSets
  /\ keep_result = None
  /\ ndb_types = None /\ exclude_file_types = {}
  /\ FilterIdle /\ MainIdle

ShouldKeep ==
  /\ keep_result = None
  /\ keep_result' = Some(should_keep_signature(name_arg, exclude_platforms, include_platforms))
  /\ UNCHANGED <<name_arg, filter_vars, policy_vars, main_vars>>

NextKeep == ShouldKeep

SpecKeep == InitKeep /\ [][NextKeep]_vars

\* ------------------------------------------------------------------------
\* Spec: the filter methods called on one file of an unpacked database, each
\* method on files of its own extension as filter_database calls them, and
\* exclude_file_type on any file

Init ==
  /\ \E f \in FileNames : \E c \in ContentsOf(f) : files = (f :> c)
  /\ stats = NewStats
  /\ exclude_platforms \in ExcludeSets
  /\ include_platforms \in IncludeSets
  /\ ndb_types \in (IF glob(files, NDB) # {} THEN NdbTypeSets ELSE {None})
  /\ exclude_file_types = {}
  /\ before = files /\ stats_before = stats /\ last_call = None /\ calls = 0
  /\ KeepIdle /\ MainIdle

Called(method, file_path, r) ==
  /\ calls < MaxCalls
  /\ files' = r.files
  /\ stats' = r.stats
  /\ before' = files
  /\ stats_before' = stats
  /\ last_call' = Some([method |-> method, file |-> file_path])
  /\ calls' = calls + 1
  /\ UNCHANGED <<policy_vars, keep_vars, main_vars>>

FilterNdb ==
  \E f \in glob(files, NDB) :
    Called("filter_ndb", f, filter_ndb(files, stats, f, exclude_platforms, include_platforms, ndb_types))

FilterHdb ==
  \E f \in glob(files, HDB) :
    Called("filter_hdb", f, filter_hdb(files, stats, f, exclude_platforms, include_platforms))

FilterHsb ==
  \E f \in glob(files, HSB) :
    Called("filter_hsb", f, filter_hsb(files, stats, f, exclude_platforms, include_platforms))

FilterMdb ==
  \E f \in glob(files, MDB) :
    Called("filter_mdb", f, filter_mdb(files, stats, f, exclude_platforms, include_platforms))

FilterLdb ==
  \E f \in glob(files, LDB) :
    Called("filter_ldb", f, filter_ldb(files, stats, f, exclude_platforms, include_platforms))

ExcludeFileType ==
  \E f \in DOMAIN files :
    Called("exclude_file_type", f, exclude_file_type(files, stats, f))

Next == FilterNdb \/ FilterHdb \/ FilterHsb \/ FilterMdb \/ FilterLdb \/ ExcludeFileType

Spec == Init /\ [][Next]_vars

\* ------------------------------------------------------------------------
\* main and filter_database

PROFILES ==
  "linux-only" :>
    [exclude_platforms |-> <<<<"W", "i", "n">>, <<"O", "s", "x">>, <<"D", "o", "c">>, <<"X", "l", "s">>, <<"P", "p", "t">>, <<"R", "t", "f">>>>,
     exclude_types |-> <<<<"m", "d", "b">>>>,
     ndb_types |-> <<<<"0">>, <<"5">>, <<"6">>, <<"7">>, <<"1", "0">>, <<"1", "2">>>>] @@
  "embedded" :>
    [exclude_platforms |-> <<<<"W", "i", "n">>, <<"O", "s", "x">>, <<"D", "o", "c">>, <<"X", "l", "s">>, <<"P", "p", "t">>, <<"H", "t", "m", "l">>, <<"S", "w", "f">>, <<"J", "a", "v", "a">>>>,
     exclude_types |-> <<<<"m", "d", "b">>, <<"h", "s", "b">>, <<"l", "d", "b">>>>,
     ndb_types |-> <<<<"0">>, <<"6">>>>] @@
  "mail-server" :>
    [exclude_platforms |-> <<<<"O", "s", "x">>, <<"D", "o", "s">>, <<"A", "n", "d", "r">>>>,
     exclude_types |-> <<>>,
     ndb_types |-> <<<<"0">>, <<"1">>, <<"2">>, <<"3">>, <<"4">>, <<"5">>, <<"6">>, <<"7">>, <<"1", "0">>, <<"1", "2">>>>] @@
  "web-server" :>
    [exclude_platforms |-> <<<<"W", "i", "n">>, <<"O", "s", "x">>, <<"D", "o", "s">>>>,
     exclude_types |-> <<<<"m", "d", "b">>>>,
     ndb_types |-> <<<<"0">>, <<"3">>, <<"5">>, <<"7">>, <<"1", "0">>, <<"1", "2">>>>]

\* command-line values
\* 'main.cvd'
MAIN_CVD == <<"m", "a", "i", "n", ".", "c", "v", "d">>
\* './filtered'
OUT_DIR == <<".", "/", "f", "i", "l", "t", "e", "r", "e", "d">>
\* 'Win'
ARG_WIN == <<"W", "i", "n">>
\* 'Win, Andr'
ARG_WIN_ANDR == <<"W", "i", "n", ",", " ", "A", "n", "d", "r">>
\* 'Unix'
ARG_UNIX == <<"U", "n", "i", "x">>
\* '0,1'
ARG_TYPES == <<"0", ",", "1">>
\* 'ndb'
ARG_NDB == <<"n", "d", "b">>
\* 'mdb,info'
ARG_MDB_INFO == <<"m", "d", "b", ",", "i", "n", "f", "o">>

ProfileArgs == {None} \cup {Some(p) : p \in DOMAIN PROFILES}
PathArgs(p) == {None, Some(p)}
ExcludePlatformArgs == {None, Some(<<>>), Some(ARG_WIN), Some(ARG_WIN_ANDR)}
IncludePlatformArgs == {None, Some(<<>>), Some(ARG_UNIX)}
NdbTypeArgs == {None, Some(<<>>), Some(ARG_TYPES)}
ExcludeTypeArgs == {None, Some(<<>>), Some(ARG_NDB), Some(ARG_MDB_INFO)}

\* what sigtool --unpack may leave in the scratch directory
Archives ==
  { (MAIN_NDB :> <<L_COMMENT, N_EVILWIN, N_WIN>>) @@ (MAIN_HDB :> <<H_WIN, H_UNIX>>) @@
    (MAIN_HSB :> <<H_WIN, H_SHORT>>) @@ (MAIN_MDB :> <<L_COMMENT, H_WIN>>) @@
    (MAIN_LDB :> <<D_ANDROID, D_ANDR>>) @@ (MAIN_INFO :> <<I_TEXT>>),
    (MAIN_NDB :> <<N_EICAR, N_SHORT>>) @@ (MAIN_MDB :> <<H_UNIX>>) @@ (MAIN_INFO :> <<L_BLANK, I_TEXT>>) }

\* the truth value Python gives a str, a list or None
truthy(o) == o # None /\ ValueOf(o) # <<>>

\* [p.strip() for p in s.split(",")]
parse_list(s) == LET parts == split(s, COMMA, -1) IN [i \in 1..Len(parts) |-> strip(parts[i])]

\* main: the locals after "if args.profile:" (argparse admits only the names
\* of PROFILES, so a profile that is given is not empty); ndb_types is kept as the set of
\* its elements, the only use of it being a membership test
profile_defaults(a) ==
  IF a.profile # None
  THEN LET profile == PROFILES[ValueOf(a.profile)]
       IN [exclude_platforms |-> Some(profile.exclude_platforms),
           include_platforms |-> None,
           ndb_types |-> Some(Range(profile.ndb_types)),
           exclude_types |-> Some(profile.exclude_types)]
  ELSE NoLocals

\* nothing_specified that also looks at --ndb-types
nothing_specified_with_types(a) ==
  /\ ~truthy(a.exclude_platforms) /\ ~truthy(a.include_platforms)
  /\ ~truthy(a.exclude_types) /\ ~truthy(a.ndb_types)

\* main: the else branch of "if args.profile:" exits
nothing_specified(a) ==
  ~truthy(a.exclude_platforms) /\ ~truthy(a.include_platforms) /\ ~truthy(a.exclude_types)

\* overrides where the value from the profile wins over the argument
overrides_profile_first(loc, a) ==
  [exclude_platforms |->
     IF loc.exclude_platforms = None /\ truthy(a.exclude_platforms)
     THEN Some(parse_list(ValueOf(a.exclude_platforms))) ELSE loc.exclude_platforms,
   include_platforms |->
     IF loc.include_platforms = None /\ truthy(a.include_platforms)
     THEN Some(parse_list(ValueOf(a.include_platforms))) ELSE loc.include_platforms,
   ndb_types |->
     IF loc.ndb_types = None /\ truthy(a.ndb_types)
     THEN Some(Range(parse_list(ValueOf(a.ndb_types)))) ELSE loc.ndb_types,
   exclude_types |->
     IF loc.exclude_types = None /\ truthy(a.exclude_types)
     THEN Some(parse_list(ValueOf(a.exclude_types))) ELSE loc.exclude_types]

\* main: "Override with command-line arguments"
overrides(loc, a) ==
  [exclude_platforms |->
     IF truthy(a.exclude_platforms)
     THEN Some(parse_list(ValueOf(a.exclude_platforms))) ELSE loc.exclude_platforms,
   include_platforms |->
     IF truthy(a.include_platforms)
     THEN Some(parse_list(ValueOf(a.include_platforms))) ELSE loc.include_platforms,
   ndb_types |->
     IF truthy(a.ndb_types)
     THEN Some(Range(parse_list(ValueOf(a.ndb_types)))) ELSE loc.ndb_types,
   exclude_types |->
     IF truthy(a.exclude_types)
     THEN Some(parse_list(ValueOf(a.exclude_types))) ELSE loc.exclude_types]

\* main: "if exclude_platforms and include_platforms:"
both_lists(loc) == truthy(loc.exclude_platforms) /\ truthy(loc.include_platforms)

\* set(x or [])
set_or_empty(o) == IF truthy(o) THEN Range(ValueOf(o)) ELSE {}

\* the call method(file_path, ...) on the directory fs and the stats st
call(method, fs, st, file_path, excl, incl, types) ==
  CASE method = "filter_ndb" -> filter_ndb(fs, st, file_path, excl, incl, types)
    [] method = "filter_hdb" -> filter_hdb(fs, st, file_path, excl, incl)
    [] method = "filter_hsb" -> filter_hsb(fs, st, file_path, excl, incl)
    [] method = "filter_mdb" -> filter_mdb(fs, st, file_path, excl, incl)
    [] method = "filter_ldb" -> filter_ldb(fs, st, file_path, excl, incl)
    [] method = "exclude_file_type" -> exclude_file_type(fs, st, file_path)

\* a loop "for file in glob: method(file, ...)" over the files todo, from the
\* directory and the stats in s
for_each(s, todo, method, excl, incl, types) ==
  LET loop[t \in SUBSET todo] ==
        IF t = {} THEN s
        ELSE LET f == CHOOSE x \in t : TRUE
                 r == loop[t \ {f}]
             IN call(method, r.files, r.stats, f, excl, incl, types)
  IN loop[todo]

Exit(code) ==
  /\ pc' = "exited"
  /\ exit_code' = Some(code)

InitMain ==
  /\ args \in [list_profiles : BOOLEAN, input : PathArgs(MAIN_CVD), output : PathArgs(OUT_DIR),
               profile : ProfileArgs, exclude_platforms : ExcludePlatformArgs,
               include_platforms : IncludePlatformArgs, ndb_types : NdbTypeArgs,
               exclude_types : ExcludeTypeArgs]
  /\ locals = NoLocals
  /\ pc = "main"
  /\ exit_code = None
  /\ effects = NoEffects
  /\ exclude_platforms = {} /\ include_platforms = {} /\ ndb_types = None
  /\ exclude_file_types = {}
  /\ FilterIdle /\ KeepIdle

\* --list-profiles prints the profiles and returns
Main_ListProfiles ==
  /\ pc = "main" /\ args.list_profiles
  /\ Exit(0)
  /\ UNCHANGED <<args, locals, effects, filter_vars, policy_vars, keep_vars>>

\* parser.error exits with status 2
Main_RequiredArguments ==
  /\ pc = "main" /\ ~args.list_profiles
  /\ ~truthy(args.input) \/ ~truthy(args.output)
  /\ Exit(2)
  /\ UNCHANGED <<args, locals, effects, filter_vars, policy_vars, keep_vars>>

Main_Profile ==
  /\ pc = "main" /\ ~args.list_profiles /\ truthy(args.input) /\ truthy(args.output)
  /\ args.profile # None
  /\ locals' = profile_defaults(args)
  /\ pc' = "override"
  /\ UNCHANGED <<args, exit_code, effects, filter_vars, policy_vars, keep_vars>>

Main_NoProfile ==
  /\ pc = "main" /\ ~args.list_profiles /\ truthy(args.input) /\ truthy(args.output)
  /\ args.profile = None
  /\ IF nothing_specified(args)
     THEN Exit(1) /\ UNCHANGED locals
     ELSE pc' = "override" /\ locals' = profile_defaults(args) /\ UNCHANGED exit_code
  /\ UNCHANGED <<args, effects, filter_vars, policy_vars, keep_vars>>

Main_Override ==
  /\ pc = "override"
  /\ locals' = overrides(locals, args)
  /\ pc' = "check"
  /\ UNCHANGED <<args, exit_code, effects, filter_vars, policy_vars, keep_vars>>

Main_RejectBoth ==
  /\ pc = "check" /\ both_lists(locals)
  /\ Exit(1)
  /\ UNCHANGED <<args, locals, effects, filter_vars, policy_vars, keep_vars>>

\* the call of filter_database: the sets, and os.makedirs(output_dir)
FilterDatabase_Enter ==
  /\ exclude_platforms' = set_or_empty(locals.exclude_platforms)
  /\ include_platforms' = set_or_empty(locals.include_platforms)
  /\ ndb_types' = locals.ndb_types
  /\ exclude_file_types' = set_or_empty(locals.exclude_types)
  /\ effects' = [effects EXCEPT !.output_dir_created = TRUE]
  /\ pc' = "unpack"
  /\ UNCHANGED <<args, locals, exit_code, filter_vars, keep_vars>>

\* main calling filter_database although both lists are given
Main_Run_Unchecked ==
  /\ pc = "check"
  /\ FilterDatabase_Enter

Main_Run ==
  /\ pc = "check" /\ ~both_lists(locals)
  /\ FilterDatabase_Enter

\* sigtool --unpack fills the scratch directory, or fails: the exception
\* leaves filter_database and main exits with status 1
FilterDatabase_Unpack ==
  /\ pc = "unpack"
  /\ effects' = [effects EXCEPT !.unpacker_invoked = TRUE]
  /\ \/ /\ \E archive \in Archives : files' = archive /\ before' = archive
        /\ pc' = "ndb"
        /\ UNCHANGED exit_code
     \/ /\ Exit(1)
        /\ UNCHANGED <<files, before>>
  /\ UNCHANGED <<args, locals, stats, stats_before, last_call, calls, policy_vars, keep_vars>>

\* one of the loops of filter_database: method called on every file of todo
Loop(at, todo, method, then) ==
  LET done == for_each(Untouched(files, stats), todo, method,
                       exclude_platforms, include_platforms, ndb_types)
  IN /\ pc = at
     /\ files' = done.files
     /\ stats' = done.stats
     /\ pc' = then
     /\ UNCHANGED <<args, locals, exit_code, effects, before, stats_before, last_call, calls,
                    policy_vars, keep_vars>>

FilterDatabase_Ndb == Loop("ndb", glob(files, NDB), "filter_ndb", "hdb")

FilterDatabase_Hdb == Loop("hdb", glob(files, HDB), "filter_hdb", "hsb")

FilterDatabase_Hsb ==
  Loop("hsb", glob(files, HSB),
       IF HSB \in exclude_file_types THEN "exclude_file_type" ELSE "filter_hsb", "mdb")

FilterDatabase_Mdb ==
  Loop("mdb", glob(files, MDB),
       IF MDB \in exclude_file_types THEN "exclude_file_type" ELSE "filter_mdb", "ldb")

FilterDatabase_Ldb ==
  Loop("ldb", glob(files, LDB),
       IF LDB \in exclude_file_types THEN "exclude_file_type" ELSE "filter_ldb", "other")

\* for ext in exclude_file_types: if ext not in the five: exclude every *.ext
FilterDatabase_Other ==
  LET others == {ext \in exclude_file_types : ext \notin {NDB, HDB, HSB, MDB, LDB}}
  IN Loop("other", UNION {glob(files, ext) : ext \in others}, "exclude_file_type", "copy")

\* shutil.copy2 of every file to output_dir
FilterDatabase_Copy ==
  /\ pc = "copy"
  /\ effects' = [effects EXCEPT !.copied = files]
  /\ pc' = "report"
  /\ UNCHANGED <<args, locals, exit_code, filter_vars, policy_vars, keep_vars>>

\* print_statistics, and main returns
FilterDatabase_Report ==
  /\ pc = "report"
  /\ Exit(0)
  /\ UNCHANGED <<args, locals, effects, filter_vars, policy_vars, keep_vars>>

NextMain ==
  \/ Main_ListProfiles \/ Main_RequiredArguments \/ Main_Profile \/ Main_NoProfile
  \/ Main_Override \/ Main_RejectBoth \/ Main_Run
  \/ FilterDatabase_Unpack \/ FilterDatabase_Ndb \/ FilterDatabase_Hdb \/ FilterDatabase_Hsb
  \/ FilterDatabase_Mdb \/ FilterDatabase_Ldb \/ FilterDatabase_Other
  \/ FilterDatabase_Copy \/ FilterDatabase_Report

SpecMain == InitMain /\ [][NextMain]_vars

\* ------------------------------------------------------------------------
\* Vocabulary of the properties

PerFormatMethods == {"filter_ndb", "filter_hdb", "filter_hsb", "filter_mdb", "filter_ldb"}

LastMethod == IF last_call = None THEN "none" ELSE ValueOf(last_call).method
LastFile == ValueOf(last_call).file

\* the format a method is the filter of
FormatOf(method) ==
  CASE method = "filter_ndb" -> NDB
    [] method = "filter_hdb" -> HDB
    [] method = "filter_hsb" -> HSB
    [] method = "filter_mdb" -> MDB
    [] method = "filter_ldb" -> LDB

\* what the last call added to the counters of a format
Delta(key) ==
  [original |-> stats[key].original - stats_before[key].original,
   filtered |-> stats[key].filtered - stats_before[key].filtered]

\* what the last call added to the counters of all formats together
RECURSIVE SumOver(_, _)
SumOver(keys, F) ==
  IF keys = {} THEN 0
  ELSE LET k == CHOOSE x \in keys : TRUE IN F[k] + SumOver(keys \ {k}, F)

TotalDelta ==
  [original |-> SumOver(StatKeys, [k \in StatKeys |-> Delta(k).original]),
   filtered |-> SumOver(StatKeys, [k \in StatKeys |-> Delta(k).filtered])]

IsBlankOrComment(raw) == raw = <<>> \/ startswith(raw, HASH)
IsRecord(raw) == strip(raw) # <<>> /\ ~startswith(strip(raw), HASH)

\* the fields of a record line of a format, and the minimum the format needs
FieldsOf(method, line) ==
  IF method = "filter_ndb" THEN split(line, COLON, 3)
  ELSE IF method = "filter_ldb" THEN split(line, SEMICOLON, 1)
  ELSE split(line, COLON, -1)

MinFields(method) ==
  IF method = "filter_ndb" THEN 4 ELSE IF method = "filter_ldb" THEN 1 ELSE 3

NameIndex(method) == IF method \in {"filter_ndb", "filter_ldb"} THEN 1 ELSE 3

IsMalformed(method, raw) ==
  IsRecord(raw) /\ Len(FieldsOf(method, strip(raw))) < MinFields(method)

HasMarkerName(method, raw) ==
  /\ IsRecord(raw)
  /\ Len(FieldsOf(method, strip(raw))) >= MinFields(method)
  /\ substring_in(EICAR, lower(FieldsOf(method, strip(raw))[NameIndex(method)]))

\* the elements of a are in b, in their order
RECURSIVE IsSubsequence(_, _)
IsSubsequence(a, b) ==
  IF a = <<>> THEN TRUE
  ELSE IF b = <<>> THEN FALSE
  ELSE IF Head(a) = Head(b) THEN IsSubsequence(Tail(a), Tail(b))
  ELSE IsSubsequence(a, Tail(b))

\* ------------------------------------------------------------------------
\* C1: in each of the five per-format filters, a record whose name field
\* holds the self-test marker 'eicar' (in any case) is in the rewritten file,
\* whatever the exclude set, the include set and the allowed-type set are.
\* The code drops such a record in filter_ndb when its type code is not
\* allowed, and in filter_mdb when 'Win' is excluded.
C1_MarkerRecordAlwaysKept ==
  LastMethod \in PerFormatMethods =>
    \A i \in 1..Len(before[LastFile]) :
      HasMarkerName(LastMethod, before[LastFile][i]) =>
        strip(before[LastFile][i]) \in Range(files[LastFile])

\* ------------------------------------------------------------------------
\* C2: for a name without the self-test marker should_keep_signature returns:
\* for an empty name or a name without '.', whether the include set is empty;
\* otherwise, with the prefix being the text before the first '.', whether
\* the prefix is in the include set when that set is not empty, else whether
\* it is not in the exclude set when that set is not empty, else true.
\* Membership is equality of the whole prefix, case included.
C2_FirstDot(name) ==
  CHOOSE i \in 1..Len(name) : name[i] = "." /\ \A j \in 1..(i - 1) : name[j] # "."

C2_Expected(name, excl, incl) ==
  IF name = <<>> \/ "." \notin Range(name)
  THEN incl = {}
  ELSE LET prefix == SubSeq(name, 1, C2_FirstDot(name) - 1)
       IN IF incl # {} THEN \E p \in incl : p = prefix
          ELSE IF excl # {} THEN \A p \in excl : p # prefix
          ELSE TRUE

C2_KeepDecision ==
  (keep_result # None /\ ~substring_in(EICAR, lower(name_arg))) =>
    ValueOf(keep_result) = C2_Expected(name_arg, exclude_platforms, include_platforms)

\* 'Android.T.F' was kept although 'Andr' is excluded
C2_Witness ==
  /\ keep_result = Some(TRUE)
  /\ name_arg = ANDR \o <<"o", "i", "d", ".", "T", ".", "F">>
  /\ exclude_platforms = {ANDR, WIN}
  /\ include_platforms = {}

\* ------------------------------------------------------------------------
\* C3: with 'Win' excluded, the whole-file shortcut of filter_mdb leaves the
\* record lines that filter_hdb's per-line filtering of the same content
\* with the same sets leaves.  The code's shortcut leaves no record at all.
C3_MdbShortcutEqualsPerLine ==
  (LastMethod = "filter_mdb" /\ WIN \in exclude_platforms) =>
    SelectSeq(files[LastFile], IsRecord) =
      SelectSeq(hdb_pass(before[LastFile], exclude_platforms, include_platforms).lines, IsRecord)

\* ------------------------------------------------------------------------
\* C6: after a per-format filter, the blank lines and the lines beginning
\* with '#' of the file are in the rewritten file, in their order and as they
\* were (up to the surrounding whitespace that every filter trims from every
\* line), and the counters grew by no more than the number of other lines.
\* The code's filter_mdb drops them all when 'Win' is excluded.
C6_CommentsAndBlanksPreserved ==
  LastMethod \in PerFormatMethods =>
    LET old == before[LastFile]
        kept == SelectSeq(old, IsBlankOrComment)
        others == Len(old) - Len(kept)
    IN /\ IsSubsequence([i \in 1..Len(kept) |-> strip(kept[i])], files[LastFile])
       /\ TotalDelta.original <= others
       /\ TotalDelta.filtered <= others

\* ------------------------------------------------------------------------
\* C7: after filter_ndb, filter_hdb, filter_hsb or filter_mdb, every line of
\* the file with fewer fields than the format requires is in the rewritten
\* file, and each added one to the original and to the filtered counter.
\* The code's filter_mdb drops such lines when 'Win' is excluded.
C7_MalformedLinesKept ==
  LastMethod \in PerFormatMethods \ {"filter_ldb"} =>
    LET IsBad(raw) == IsMalformed(LastMethod, raw)
        bad == SelectSeq(before[LastFile], IsBad)
    IN /\ SelectSeq(files[LastFile], IsBad) = [i \in 1..Len(bad) |-> strip(bad[i])]
       /\ TotalDelta.original >= Len(bad)
       /\ TotalDelta.filtered >= Len(bad)

\* ------------------------------------------------------------------------
\* C8: calling a method a second time, with the same policy, on the file it
\* has just rewritten leaves the content of the file as the first call left
\* it; for the five per-format filters and for exclude_file_type.
C8_SecondCallChangesNothing ==
  [][(last_call # None /\ calls' = calls + 1 /\ last_call' = last_call) => files' = files]_vars

\* filter_hdb was called twice on a file of two records of which it dropped one
C8_Witness ==
  /\ calls = 2 /\ LastMethod = "filter_hdb"
  /\ stats[HDB] = [original |-> 3, filtered |-> 2]
  /\ files = before /\ Len(files[LastFile]) = 1

\* ------------------------------------------------------------------------
\* C9: the scenario of the line 'EvilWin.Trojan.Foo:0:*:deadbeef' in an .ndb
\* file filtered with exclude-platforms {Win}, no include list and every type
\* code allowed.
RemoveAt(s, i) == SubSeq(s, 1, i - 1) \o SubSeq(s, i + 1, Len(s))

C9_Scenario ==
  /\ LastMethod = "filter_ndb"
  /\ exclude_platforms = {WIN} /\ include_platforms = {} /\ ndb_types = None
  /\ N_EVILWIN \in Range(before[LastFile])

\* what the line added to the ndb counters: the counters of the call less
\* those of the same call on the file without the line
C9_LineAdded(i) ==
  LET r == ndb_pass(RemoveAt(before[LastFile], i), exclude_platforms, include_platforms, ndb_types)
  IN [original |-> Delta(NDB).original - r.original_count,
      filtered |-> Delta(NDB).filtered - r.filtered_count]

\* C9 as claimed: the line is dropped, original grows by 1 and filtered by 0
C9_EvilWinDropped ==
  C9_Scenario =>
    /\ N_EVILWIN \notin Range(files[LastFile])
    /\ \A i \in 1..Len(before[LastFile]) :
         before[LastFile][i] = N_EVILWIN => C9_LineAdded(i) = [original |-> 1, filtered |-> 0]

\* C9 as amended: the prefix of the name is 'EvilWin', which is not 'Win', so
\* the line is kept: original grows by 1 and filtered by 1
C9_EvilWinKept ==
  C9_Scenario =>
    /\ N_EVILWIN \in Range(files[LastFile])
    /\ \A i \in 1..Len(before[LastFile]) :
         before[LastFile][i] = N_EVILWIN => C9_LineAdded(i) = [original |-> 1, filtered |-> 1]

\* the line was filtered together with a 'Win.' record, which was dropped
C9_Witness ==
  /\ C9_Scenario
  /\ before[LastFile] = <<N_EVILWIN, N_WIN>>
  /\ files[LastFile] = <<N_EVILWIN>>
  /\ Delta(NDB) = [original |-> 2, filtered |-> 1]

\* ------------------------------------------------------------------------
\* C4: a run that names a profile filters with, for each of exclude-platforms,
\* include-platforms, ndb-types and exclude-types, the value of the argument
\* when Supplied(argument) and the value of the profile otherwise.
Entered == effects.output_dir_created

C4_Fields == {"exclude_platforms", "include_platforms", "ndb_types", "exclude_types"}

\* supplied: for each field, whether its argument counts as supplied
C4_PolicyIs(supplied) ==
  LET profile == PROFILES[ValueOf(args.profile)]
      Arg(o) == Range(parse_list(ValueOf(o)))
  IN /\ exclude_platforms =
          IF supplied.exclude_platforms THEN Arg(args.exclude_platforms)
          ELSE Range(profile.exclude_platforms)
     /\ include_platforms =
          IF supplied.include_platforms THEN Arg(args.include_platforms) ELSE {}
     /\ ndb_types =
          IF supplied.ndb_types THEN Some(Arg(args.ndb_types))
          ELSE Some(Range(profile.ndb_types))
     /\ exclude_file_types =
          IF supplied.exclude_types THEN Arg(args.exclude_types)
          ELSE Range(profile.exclude_types)

\* C4 as claimed: every argument given on the command line wins
C4_ExplicitArgumentWins ==
  (Entered /\ args.profile # None) => C4_PolicyIs([f \in C4_Fields |-> args[f] # None])

\* C4 as amended: an argument given with a non-empty value wins; one given as
\* the empty string is treated as not given and the profile's value is used
C4_NonEmptyArgumentWins ==
  (Entered /\ args.profile # None) => C4_PolicyIs([f \in C4_Fields |-> truthy(args[f])])

\* linux-only with --exclude-platforms "Win, Andr": the argument is used for
\* the platforms and the profile for the excluded file types
C4_Witness ==
  /\ Entered /\ pc = "report"
  /\ args.profile = Some("linux-only")
  /\ args.exclude_platforms = Some(ARG_WIN_ANDR) /\ args.exclude_types = None
  /\ exclude_platforms = {WIN, ANDR}
  /\ exclude_file_types = {MDB}

\* ------------------------------------------------------------------------
\* C5: a filtering run (one that is not --list-profiles, which only prints)
\* whose include-platforms list and exclude-platforms list are both non-empty
\* creates no output directory, invokes no unpacker, rewrites and copies no
\* file, and when it has exited its status is not zero.
C5_BothLists ==
  /\ ~args.list_profiles
  /\ truthy(args.include_platforms)
  /\ \/ truthy(args.exclude_platforms)
     \/ args.profile # None /\ PROFILES[ValueOf(args.profile)].exclude_platforms # <<>>

C5_RejectedBeforeAnyIO ==
  C5_BothLists =>
    /\ effects = NoEffects
    /\ files = <<>>
    /\ pc \in {"main", "override", "check", "exited"}
    /\ pc = "exited" => exit_code \in {Some(1), Some(2)}

\* a profile with --include-platforms Unix passed the argument checks and was
\* rejected for its two lists
C5_Witness ==
  /\ C5_BothLists
  /\ truthy(args.input) /\ truthy(args.output)
  /\ args.profile # None /\ args.exclude_platforms = None
  /\ locals.include_platforms = Some(<<UNIX>>)
  /\ pc = "exited" /\ exit_code = Some(1)

\* ------------------------------------------------------------------------
\* C10: when the loops of filter_database are done, every unpacked file of
\* the five known formats whose format is in exclude_file_types holds the
\* single comment of exclude_file_type and its format's filtered count is 0,
\* and every other one holds what the filter of its own extension leaves.
\* The code never looks at exclude_file_types for .ndb and .hdb files.
C10_OwnFilter(f) ==
  LET ext == file_ext(f)
      old == before[f]
  IN IF ext = NDB THEN ndb_pass(old, exclude_platforms, include_platforms, ndb_types).lines
     ELSE IF ext = HDB THEN hdb_pass(old, exclude_platforms, include_platforms).lines
     ELSE IF ext = HSB THEN hsb_pass(old, exclude_platforms, include_platforms).lines
     ELSE IF ext = MDB THEN mdb_pass(old, exclude_platforms, include_platforms).lines
     ELSE ldb_pass(old, exclude_platforms, include_platforms).lines

C10_DispatchByFormat ==
  pc \in {"copy", "report"} =>
    \A f \in DOMAIN before :
      file_ext(f) \in {NDB, HDB, HSB, MDB, LDB} =>
        IF file_ext(f) \in exclude_file_types
        THEN /\ files[f] = exclude_pass(f, before[f]).lines
             /\ stats[file_ext(f)].filtered = 0
        ELSE files[f] = C10_OwnFilter(f)

\* ------------------------------------------------------------------------
\* C11: a filtering run (not --list-profiles, and with --input and --output)
\* is rejected with the 'must specify' error, before any I/O, exactly when it
\* gives no profile and none of the override arguments.
\* The 'must specify' exit is the only exit with status 1 that main takes
\* before it has given a value to any of its four locals.
C11_FilteringRunEnded ==
  pc = "exited" /\ ~args.list_profiles /\ truthy(args.input) /\ truthy(args.output)

C11_MustSpecifyRejected == exit_code = Some(1) /\ locals = NoLocals

\* C11 as claimed: --ndb-types counts among the override arguments, and an
\* argument counts when it is given
C11_RejectedIffNothingGiven ==
  C11_FilteringRunEnded =>
    /\ C11_MustSpecifyRejected <=>
         /\ args.profile = None
         /\ args.exclude_platforms = None /\ args.include_platforms = None
         /\ args.ndb_types = None /\ args.exclude_types = None
    /\ C11_MustSpecifyRejected => effects = NoEffects /\ files = <<>>

\* C11 as amended: the run is rejected exactly when it gives no profile and
\* no non-empty --exclude-platforms, --include-platforms or --exclude-types;
\* --ndb-types does not count
C11_RejectedIffNoneOfThree ==
  C11_FilteringRunEnded =>
    /\ C11_MustSpecifyRejected <=>
         /\ args.profile = None
         /\ ~truthy(args.exclude_platforms) /\ ~truthy(args.include_platforms)
         /\ ~truthy(args.exclude_types)
    /\ C11_MustSpecifyRejected => effects = NoEffects /\ files = <<>>

\* a run with --ndb-types 0,1 and nothing else was rejected
C11_Witness ==
  /\ C11_FilteringRunEnded /\ C11_MustSpecifyRejected
  /\ args.profile = None /\ args.ndb_types = Some(ARG_TYPES)
  /\ args.exclude_platforms = None /\ args.include_platforms = None
  /\ args.exclude_types = None
  /\ effects = NoEffects

\* ------------------------------------------------------------------------
\* C12: every call of a per-format filter or of the whole-format exclusion
\* adds the original and filtered counts of the file it processed to the
\* Stats entry named after that file's own format, and leaves the entries
\* of all other formats as they were.
C12_CountsUnderOwnFormat ==
  last_call # None =>
    LET own == file_ext(LastFile)
    IN /\ \A k \in StatKeys \ {own} : stats[k] = stats_before[k]
       /\ Delta(own).original = count_signatures(before[LastFile])
       /\ Delta(own).filtered = count_signatures(files[LastFile])

\* ------------------------------------------------------------------------
\* C13: after any calls of the per-format filters and of the whole-format
\* exclusion, every Stats entry has 0 <= filtered <= original, so the
\* removed count that print_statistics reports is never negative.
C13_Removed(key) == stats[key].original - stats[key].filtered

C13_FilteredWithinOriginal ==
  \A k \in StatKeys :
    /\ 0 <= stats[k].filtered
    /\ stats[k].filtered <= stats[k].original
    /\ C13_Removed(k) >= 0

\* calls have both kept and removed records of some format
C13_Witness ==
  /\ calls >= 1
  /\ \E k \in StatKeys : 0 < stats[k].filtered /\ stats[k].filtered < stats[k].original

====
